---- MODULE Spec2Model ----
(***************************************************************************)
(* Gameplay feature modules of the tile-matching puzzle game:              *)
(*   - PowerupManager      (src/unnamed/part_000, lines 205-306)           *)
(*   - CollectiblesManager (src/unnamed/part_000, lines 13-78)             *)
(*   - Leaderboards        (src/unnamed/part_001, lines 13-65)             *)
(*   - Multiplayer         (src/src/features/multiplayer-mode.js)          *)
(* The host engine (Phaser) owns the clock, the timers and the overlap     *)
(* detection; its callbacks are the actions of the model.                  *)
(***************************************************************************)
EXTENDS Integers, Sequences, FiniteSets, TLC

(* ------------------------------ bounds -------------------------------- *)

\* createPowerup calls made by the game (valid and unknown types together)
MaxCreate == 2
\* the clock stops once it shows MaxTime and no active entry is still to expire
MaxTime == 2
\* largest totalCollectibles a CollectiblesManager is constructed with
MaxCollectibles == 6
\* addScore calls made on a Leaderboards
MaxScores == 3
\* remote-player sprites a Multiplayer creates (playerJoined events handled)
MaxJoins == 3

(* ------------------------------ inputs -------------------------------- *)

\* the definition table handed to the PowerupManager constructor
\* (durations in clock ticks)
powerupData ==
  [speed  |-> [spriteKey |-> "speedSprite",  duration |-> 1, effect |-> "speedEffect"],
   shield |-> [spriteKey |-> "shieldSprite", duration |-> 2, effect |-> "shieldEffect"]]

\* type arguments createPowerup is called with: the registered ones and one
\* that is not in the table
TypeArgs == DOMAIN powerupData \cup {"bogus"}

\* where powerups are spawned
SpawnPoints == {[x |-> 10, y |-> 10]}

\* config.positions of the CollectiblesManager: the i-th is (100 i, 100 i + 100)
positions == [i \in 1..(MaxCollectibles + 1) |-> [x |-> 100 * i, y |-> 100 * i + 100]]

\* the arguments addScore is called with
NameArgs == {"Player1", "Player2"}
ScoreArgs == {100, 150, 200}

\* the remote players the server reports: their ids (strings the server hands
\* out, none of them the name of a property every object inherits) and where
\* they stand
PlayerIds == {"player1", "player2"}
Coords == {[x |-> 100, y |-> 200], [x |-> 300, y |-> 400]}
PlayerArgs == {[id |-> id, x |-> c.x, y |-> c.y] : id \in PlayerIds, c \in Coords}

VARIABLES
  now,               \* scene.time.now, the engine clock
  scenePlayer,       \* scene.player
  sprites,           \* powerup sprites made by scene.physics.add.sprite, in order
  overlaps,          \* overlap watches registered by createPowerup
  warnings,          \* console.warn calls of createPowerup (the type warned about)
  heap,              \* every ActivePowerup object ever built; its index is its identity
  activePowerups,    \* this.activePowerups: a sequence of ActivePowerup identities
  timers,            \* pending scene.time.delayedCall events
  effectLog,         \* calls of the effect capabilities, in order
  lastUpdate,        \* the time argument of the latest update call, -1 before any
  totalCollectibles, \* CollectiblesManager.totalCollectibles
  collectibles,      \* CollectiblesManager.collectibles
  collectedCount,    \* CollectiblesManager.collectedCount
  collectOverlaps,   \* overlap watches registered by createCollectibles
  consoleLog,        \* console.log calls of the CollectiblesManager
  scores,            \* Leaderboards.scores
  scoreLog,          \* console.log calls of Leaderboards.addScore, one per call
  players,           \* Multiplayer.players: remote player id -> sprite identity
  remoteSprites,     \* sprites made by scene.add.sprite for remote players, in order
  raised,            \* what the latest Multiplayer handler call threw, "" if nothing
  lastEvent          \* the latest Multiplayer handler call: its name and the id it was for

powerupVars == <<now, scenePlayer, sprites, overlaps, warnings, heap,
                 activePowerups, timers, effectLog, lastUpdate>>
collectVars == <<totalCollectibles, collectibles, collectedCount,
                 collectOverlaps, consoleLog>>
leaderVars == <<scores, scoreLog>>
multiVars == <<players, remoteSprites, raised, lastEvent>>
featureVars == <<leaderVars, multiVars>>
vars == <<powerupVars, collectVars, featureVars>>

(* --------------------------- array helpers ---------------------------- *)

\* a lookup by type instead of identity: the 0-based index of the first element
\* whose ActivePowerup has the type of x, -1 when there is none
indexOfType(arr, x) ==
  IF \E i \in 1..Len(arr) : heap[arr[i]].type = heap[x].type
  THEN (CHOOSE i \in 1..Len(arr) :
          /\ heap[arr[i]].type = heap[x].type
          /\ \A j \in 1..(i - 1) : heap[arr[j]].type # heap[x].type) - 1
  ELSE -1

\* Array.prototype.indexOf: 0-based index of the first element identical to x,
\* -1 when there is none
indexOf(arr, x) ==
  IF \E i \in 1..Len(arr) : arr[i] = x
  THEN (CHOOSE i \in 1..Len(arr) : arr[i] = x /\ \A j \in 1..(i - 1) : arr[j] # x) - 1
  ELSE -1

\* splice called without its deleteCount: everything from start on is removed
spliceToEnd(arr, start, deleteCount) ==
  LET len  == Len(arr)
      from == IF start < 0
              THEN (IF len + start < 0 THEN 0 ELSE len + start)
              ELSE (IF start > len THEN len ELSE start)
  IN  SubSeq(arr, 1, from)

\* Array.prototype.splice(start, deleteCount) with no inserted items: a negative
\* start counts from the end, and is clamped to the array
splice(arr, start, deleteCount) ==
  LET len  == Len(arr)
      from == IF start < 0
              THEN (IF len + start < 0 THEN 0 ELSE len + start)
              ELSE (IF start > len THEN len ELSE start)
      cnt  == IF deleteCount < 0 THEN 0
              ELSE IF deleteCount > len - from THEN len - from ELSE deleteCount
  IN  SubSeq(arr, 1, from) \o SubSeq(arr, from + cnt + 1, len)

\* filter with the comparison of update made strict: an entry whose
\* expirationTime equals time is not selected
RECURSIVE filterExpiredStrict(_, _, _)
filterExpiredStrict(arr, objs, time) ==
  IF arr = <<>> THEN <<>>
  ELSE LET rest == filterExpiredStrict(Tail(arr), objs, time)
       IN  IF time > objs[Head(arr)].expirationTime
           THEN <<Head(arr)>> \o rest
           ELSE rest

\* Array.prototype.filter with the predicate of update: the entries of arr, in
\* order, whose expirationTime has been reached at time
RECURSIVE filterExpired(_, _, _)
filterExpired(arr, objs, time) ==
  IF arr = <<>> THEN <<>>
  ELSE LET rest == filterExpired(Tail(arr), objs, time)
       IN  IF time >= objs[Head(arr)].expirationTime
           THEN <<Head(arr)>> \o rest
           ELSE rest

(* --------------------------- PowerupManager --------------------------- *)

\* one recorded call effect(subject, activating); entry names the ActivePowerup
\* on whose behalf it was made
effectCall(effect, subject, activating, entry) ==
  [effect |-> effect, subject |-> subject, activating |-> activating, entry |-> entry]

\* constructor: no active powerups
InitPowerupManager ==
  /\ now = 0
  /\ scenePlayer = "player"
  /\ sprites = <<>>
  /\ overlaps = <<>>
  /\ warnings = <<>>
  /\ heap = <<>>
  /\ activePowerups = <<>>
  /\ timers = {}
  /\ effectLog = <<>>
  /\ lastUpdate = -1

\* createPowerup without the lookup guard: a sprite and a watch are made for
\* any type, with the metadata undefined when the type is not in the table
createPowerupNoGuard(type, pos) ==
  /\ Len(sprites) + Len(warnings) < MaxCreate
  /\ LET known == type \in DOMAIN powerupData
     IN  sprites' = Append(sprites,
                 [x |-> pos.x, y |-> pos.y,
                  spriteKey |-> IF known THEN powerupData[type].spriteKey ELSE "undefined",
                  type |-> type,
                  duration |-> IF known THEN powerupData[type].duration ELSE 0,
                  effect |-> IF known THEN powerupData[type].effect ELSE "undefined",
                  immovable |-> TRUE, enabled |-> TRUE, visible |-> TRUE])
  /\ overlaps' = Append(overlaps,
                 [object1 |-> scenePlayer, object2 |-> Len(sprites) + 1])
  /\ UNCHANGED <<warnings, now, scenePlayer, heap, activePowerups, timers, effectLog,
                 lastUpdate>>
  /\ UNCHANGED collectVars
  /\ UNCHANGED featureVars

\* createPowerup(type, x, y)
createPowerup(type, pos) ==
  /\ Len(sprites) + Len(warnings) < MaxCreate
  /\ IF type \notin DOMAIN powerupData
     THEN /\ warnings' = Append(warnings, type)
          /\ UNCHANGED <<sprites, overlaps>>
     ELSE /\ sprites' = Append(sprites,
                 [x |-> pos.x, y |-> pos.y, spriteKey |-> powerupData[type].spriteKey,
                  type |-> type, duration |-> powerupData[type].duration,
                  effect |-> powerupData[type].effect,
                  immovable |-> TRUE, enabled |-> TRUE, visible |-> TRUE])
          /\ overlaps' = Append(overlaps,
                 [object1 |-> scenePlayer, object2 |-> Len(sprites) + 1])
          /\ UNCHANGED warnings
  /\ UNCHANGED <<now, scenePlayer, heap, activePowerups, timers, effectLog, lastUpdate>>
  /\ UNCHANGED collectVars
  /\ UNCHANGED featureVars

\* activatePowerup that pushes the new entry twice
activatePowerupPushTwice(player, powerup) ==
  LET type     == sprites[powerup].type
      duration == sprites[powerup].duration
      effect   == sprites[powerup].effect
      activePowerup == Len(heap) + 1
  IN  /\ sprites' = [sprites EXCEPT ![powerup].enabled = FALSE,
                                    ![powerup].visible = FALSE]
      /\ heap' = Append(heap, [type |-> type, duration |-> duration, effect |-> effect,
                               expirationTime |-> now + duration])
      /\ activePowerups' = activePowerups \o <<activePowerup, activePowerup>>
      /\ effectLog' = Append(effectLog, effectCall(effect, player, TRUE, activePowerup))
      /\ timers' = timers \cup {[delay |-> duration, due |-> now + duration,
                                 args |-> <<activePowerup, player>>]}
      /\ UNCHANGED <<now, scenePlayer, overlaps, warnings, lastUpdate>>
      /\ UNCHANGED collectVars
      /\ UNCHANGED featureVars

\* activatePowerup without powerup.disableBody(true, true)
activatePowerupNoDisable(player, powerup) ==
  LET type     == sprites[powerup].type
      duration == sprites[powerup].duration
      effect   == sprites[powerup].effect
      activePowerup == Len(heap) + 1
  IN  /\ heap' = Append(heap, [type |-> type, duration |-> duration, effect |-> effect,
                               expirationTime |-> now + duration])
      /\ activePowerups' = Append(activePowerups, activePowerup)
      /\ effectLog' = Append(effectLog, effectCall(effect, player, TRUE, activePowerup))
      /\ timers' = timers \cup {[delay |-> duration, due |-> now + duration,
                                 args |-> <<activePowerup, player>>]}
      /\ UNCHANGED <<sprites, now, scenePlayer, overlaps, warnings, lastUpdate>>
      /\ UNCHANGED collectVars
      /\ UNCHANGED featureVars

\* activatePowerup that takes the duration alone for the expirationTime
activatePowerupNoClock(player, powerup) ==
  LET type     == sprites[powerup].type
      duration == sprites[powerup].duration
      effect   == sprites[powerup].effect
      activePowerup == Len(heap) + 1
  IN  /\ sprites' = [sprites EXCEPT ![powerup].enabled = FALSE,
                                    ![powerup].visible = FALSE]
      /\ heap' = Append(heap, [type |-> type, duration |-> duration, effect |-> effect,
                               expirationTime |-> duration])
      /\ activePowerups' = Append(activePowerups, activePowerup)
      /\ effectLog' = Append(effectLog, effectCall(effect, player, TRUE, activePowerup))
      /\ timers' = timers \cup {[delay |-> duration, due |-> now + duration,
                                 args |-> <<activePowerup, player>>]}
      /\ UNCHANGED <<now, scenePlayer, overlaps, warnings, lastUpdate>>
      /\ UNCHANGED collectVars
      /\ UNCHANGED featureVars

\* activatePowerup that keeps one ActivePowerup object per type and re-arms it
\* when the type is picked up again
activatePowerupReuse(player, powerup) ==
  LET type     == sprites[powerup].type
      duration == sprites[powerup].duration
      effect   == sprites[powerup].effect
      pooled   == {e \in 1..Len(heap) : heap[e].type = type}
      activePowerup == IF pooled = {} THEN Len(heap) + 1
                       ELSE CHOOSE e \in pooled : \A f \in pooled : e <= f
  IN  /\ sprites' = [sprites EXCEPT ![powerup].enabled = FALSE,
                                    ![powerup].visible = FALSE]
      /\ heap' = IF pooled = {}
                 THEN Append(heap, [type |-> type, duration |-> duration,
                                    effect |-> effect,
                                    expirationTime |-> now + duration])
                 ELSE [heap EXCEPT ![activePowerup].expirationTime = now + duration]
      /\ activePowerups' = Append(activePowerups, activePowerup)
      /\ effectLog' = Append(effectLog, effectCall(effect, player, TRUE, activePowerup))
      /\ timers' = timers \cup {[delay |-> duration, due |-> now + duration,
                                 args |-> <<activePowerup, player>>]}
      /\ UNCHANGED <<now, scenePlayer, overlaps, warnings, lastUpdate>>
      /\ UNCHANGED collectVars
      /\ UNCHANGED featureVars

\* activatePowerup(player, powerup); powerup is the index of the sprite
activatePowerup(player, powerup) ==
  LET type     == sprites[powerup].type
      duration == sprites[powerup].duration
      effect   == sprites[powerup].effect
      activePowerup == Len(heap) + 1
  IN  /\ sprites' = [sprites EXCEPT ![powerup].enabled = FALSE,
                                    ![powerup].visible = FALSE]
      /\ heap' = Append(heap, [type |-> type, duration |-> duration, effect |-> effect,
                               expirationTime |-> now + duration])
      /\ activePowerups' = Append(activePowerups, activePowerup)
      /\ effectLog' = Append(effectLog, effectCall(effect, player, TRUE, activePowerup))
      /\ timers' = timers \cup {[delay |-> duration, due |-> now + duration,
                                 args |-> <<activePowerup, player>>]}
      /\ UNCHANGED <<now, scenePlayer, overlaps, warnings, lastUpdate>>
      /\ UNCHANGED collectVars
      /\ UNCHANGED featureVars

\* deactivatePowerup without the index check: splice(-1, 1) drops the last
\* entry and the effect is reversed again
deactivatePowerupNoCheck(m, activePowerup, player) ==
  LET index == indexOf(m.activePowerups, activePowerup)
  IN  [activePowerups |-> splice(m.activePowerups, index, 1),
       effectLog |-> Append(m.effectLog,
           effectCall(heap[activePowerup].effect, player, FALSE, activePowerup))]

\* deactivatePowerup(activePowerup, player), as a function of the manager's
\* active set and of the effect log
deactivatePowerup(m, activePowerup, player) ==
  LET index == indexOf(m.activePowerups, activePowerup)
  IN  IF index # -1
      THEN [activePowerups |-> splice(m.activePowerups, index, 1),
            effectLog |-> Append(m.effectLog,
                effectCall(heap[activePowerup].effect, player, FALSE, activePowerup))]
      ELSE m

\* a loop over expiredPowerups that stops after its first element
forEachDeactivateFirst(m, expiredPowerups, player) ==
  IF expiredPowerups = <<>> THEN m
  ELSE deactivatePowerup(m, Head(expiredPowerups), player)

\* expiredPowerups.forEach(powerup => this.deactivatePowerup(powerup, this.scene.player)):
\* the calls run in order, each on the manager as the one before left it (next)
RECURSIVE forEachDeactivate(_, _, _)
forEachDeactivate(m, expiredPowerups, player) ==
  IF expiredPowerups = <<>> THEN m
  ELSE CHOOSE result \in
         {forEachDeactivate(next, Tail(expiredPowerups), player) :
            next \in {deactivatePowerup(m, Head(expiredPowerups), player)}} : TRUE

\* update that selects the expired entries and then forgets to deactivate them
updateNoDeactivate(m, time) ==
  LET expiredPowerups == filterExpired(m.activePowerups, heap, time)
  IN  m

\* update that calls deactivatePowerup(powerup) without the player argument
updateNoSubject(m, time) ==
  CHOOSE result \in
    {forEachDeactivate(m, expiredPowerups, "undefined") :
       expiredPowerups \in {filterExpired(m.activePowerups, heap, time)}} : TRUE

\* update(time, delta), as a function of the manager's active set and effect log
update(m, time) ==
  CHOOSE result \in
    {forEachDeactivate(m, expiredPowerups, scenePlayer) :
       expiredPowerups \in {filterExpired(m.activePowerups, heap, time)}} : TRUE

\* the manager's state the two operators above work on
manager == [activePowerups |-> activePowerups, effectLog |-> effectLog]

(* ----------------------- engine callbacks (host) ---------------------- *)

\* The physics world reports an overlap of the two objects of a watch. Arcade
\* physics skips a body that is not enabled, and disableBody(true, true)
\* disables it.
Overlap(w) ==
  /\ sprites[overlaps[w].object2].enabled
  /\ activatePowerup(overlaps[w].object1, overlaps[w].object2)

\* The clock delivers a delayed call whose delay has elapsed; the event is
\* one-shot, it leaves the clock when it fires.
TimerFire(t) ==
  /\ now >= t.due
  /\ timers' = timers \ {t}
  /\ LET m == deactivatePowerup(manager, t.args[1], t.args[2])
     IN  /\ activePowerups' = m.activePowerups
         /\ effectLog' = m.effectLog
  /\ UNCHANGED <<now, scenePlayer, sprites, overlaps, warnings, heap, lastUpdate>>
  /\ UNCHANGED collectVars
  /\ UNCHANGED featureVars

\* The scene's update calls PowerupManager.update(time, delta) with the clock.
Update ==
  /\ LET m == update(manager, now)
     IN  /\ activePowerups' = m.activePowerups
         /\ effectLog' = m.effectLog
  /\ lastUpdate' = now
  /\ UNCHANGED <<now, scenePlayer, sprites, overlaps, warnings, heap, timers>>
  /\ UNCHANGED collectVars
  /\ UNCHANGED featureVars

\* The clock advances by one tick.
Tick ==
  /\ \/ now < MaxTime
     \/ \E i \in 1..Len(activePowerups) : heap[activePowerups[i]].expirationTime > now
  /\ now' = now + 1
  /\ UNCHANGED <<scenePlayer, sprites, overlaps, warnings, heap, activePowerups,
                 timers, effectLog, lastUpdate>>
  /\ UNCHANGED collectVars
  /\ UNCHANGED featureVars

(* ------------------------- CollectiblesManager ------------------------ *)

\* the loop of createCollectibles run once too often (i <= totalCollectibles)
RECURSIVE createCollectiblesLoopInclusive(_, _, _)
createCollectiblesLoopInclusive(i, total, acc) ==
  IF i <= total
  THEN createCollectiblesLoopInclusive(i + 1, total,
         Append(acc, [x |-> positions[i + 1].x, y |-> positions[i + 1].y,
                      spriteKey |-> "collectible", scale |-> "0.5",
                      immovable |-> TRUE, enabled |-> TRUE, visible |-> TRUE]))
  ELSE acc

\* createCollectibles(): the sprites made by the loop, in order
RECURSIVE createCollectiblesLoop(_, _, _)
createCollectiblesLoop(i, total, acc) ==
  IF i < total
  THEN createCollectiblesLoop(i + 1, total,
         Append(acc, [x |-> positions[i + 1].x, y |-> positions[i + 1].y,
                      spriteKey |-> "collectible", scale |-> "0.5",
                      immovable |-> TRUE, enabled |-> TRUE, visible |-> TRUE]))
  ELSE acc

\* constructor(scene, config) with config.totalCollectibles = total
InitCollectiblesManager(total) ==
  /\ totalCollectibles = total
  /\ collectibles = createCollectiblesLoop(0, total, <<>>)
  /\ collectedCount = 0
  /\ collectOverlaps = <<[object1 |-> "player", object2 |-> "collectibles",
                          callback |-> "collectItem"]>>
  /\ consoleLog = <<>>

\* collectItem that counts the item twice
collectItemCountTwice(player, collectible) ==
  LET count == collectedCount + 2
      collected == [text |-> "Collected item", count |-> count,
                    total |-> totalCollectibles]
      all == [text |-> "All collectibles collected!", count |-> count,
              total |-> totalCollectibles]
  IN  /\ collectibles' = [collectibles EXCEPT ![collectible].enabled = FALSE,
                                              ![collectible].visible = FALSE]
      /\ collectedCount' = count
      /\ consoleLog' = IF count = totalCollectibles
                       THEN consoleLog \o <<collected, all>>
                       ELSE Append(consoleLog, collected)
      /\ UNCHANGED <<totalCollectibles, collectOverlaps>>
      /\ UNCHANGED powerupVars
      /\ UNCHANGED featureVars

\* collectItem that compares the count before incrementing it
collectItemCompareFirst(player, collectible) ==
  LET count == collectedCount + 1
      collected == [text |-> "Collected item", count |-> count,
                    total |-> totalCollectibles]
      all == [text |-> "All collectibles collected!", count |-> count,
              total |-> totalCollectibles]
  IN  /\ collectibles' = [collectibles EXCEPT ![collectible].enabled = FALSE,
                                              ![collectible].visible = FALSE]
      /\ collectedCount' = count
      /\ consoleLog' = IF collectedCount = totalCollectibles
                       THEN consoleLog \o <<collected, all>>
                       ELSE Append(consoleLog, collected)
      /\ UNCHANGED <<totalCollectibles, collectOverlaps>>
      /\ UNCHANGED powerupVars
      /\ UNCHANGED featureVars

\* collectItem that leaves the collected sprite's body enabled
collectItemNoDisable(player, collectible) ==
  LET count == collectedCount + 1
      collected == [text |-> "Collected item", count |-> count,
                    total |-> totalCollectibles]
      all == [text |-> "All collectibles collected!", count |-> count,
              total |-> totalCollectibles]
  IN  /\ collectibles' = collectibles
      /\ collectedCount' = count
      /\ consoleLog' = IF count = totalCollectibles
                       THEN consoleLog \o <<collected, all>>
                       ELSE Append(consoleLog, collected)
      /\ UNCHANGED <<totalCollectibles, collectOverlaps>>
      /\ UNCHANGED powerupVars
      /\ UNCHANGED featureVars

\* collectItem(player, collectible); collectible is the index of the sprite
collectItem(player, collectible) ==
  LET count == collectedCount + 1
      collected == [text |-> "Collected item", count |-> count,
                    total |-> totalCollectibles]
      all == [text |-> "All collectibles collected!", count |-> count,
              total |-> totalCollectibles]
  IN  /\ collectibles' = [collectibles EXCEPT ![collectible].enabled = FALSE,
                                              ![collectible].visible = FALSE]
      /\ collectedCount' = count
      /\ consoleLog' = IF count = totalCollectibles
                       THEN consoleLog \o <<collected, all>>
                       ELSE Append(consoleLog, collected)
      /\ UNCHANGED <<totalCollectibles, collectOverlaps>>
      /\ UNCHANGED powerupVars
      /\ UNCHANGED featureVars

\* The physics world reports an overlap of the player and one collectible of
\* the watched list; a disabled body is skipped.
CollectOverlap(c) ==
  /\ collectibles[c].enabled
  /\ collectItem(collectOverlaps[1].object1, c)

(* ---------------------------- Leaderboards ---------------------------- *)

\* constructor(scene)
InitLeaderboards ==
  /\ scores = <<>>
  /\ scoreLog = <<>>

\* a comparator that orders the scores upwards
compareAscending(a, b) == a.score - b.score

\* the comparator handed to sort: (a, b) => b.score - a.score
compareScores(a, b) == b.score - a.score

\* puts entry into an array already ordered by the comparator, behind every
\* element the comparator does not place after it
insertSorted(sorted, entry) ==
  LET before == {i \in 0..Len(sorted) :
                   \A j \in 1..i : compareScores(sorted[j], entry) <= 0}
      k == CHOOSE i \in before : \A j \in before : j <= i
  IN  SubSeq(sorted, 1, k) \o <<entry>> \o SubSeq(sorted, k + 1, Len(sorted))

\* Array.prototype.sort with the comparator: a stable sort, elements the
\* comparator calls equal keep their order
RECURSIVE sort(_)
sort(arr) ==
  IF arr = <<>> THEN <<>>
  ELSE insertSorted(sort(SubSeq(arr, 1, Len(arr) - 1)), arr[Len(arr)])

\* addScore that pushes the entry and leaves the array as it is
addScoreNoSort(playerName, score) ==
  /\ Len(scoreLog) < MaxScores
  /\ scores' = Append(scores, [name |-> playerName, score |-> score])
  /\ scoreLog' = Append(scoreLog, [text |-> "New score added", name |-> playerName,
                                   score |-> score])
  /\ UNCHANGED <<powerupVars, collectVars, multiVars>>

\* addScore(playerName, score)
addScore(playerName, score) ==
  /\ Len(scoreLog) < MaxScores
  /\ scores' = sort(Append(scores, [name |-> playerName, score |-> score]))
  /\ scoreLog' = Append(scoreLog, [text |-> "New score added", name |-> playerName,
                                   score |-> score])
  /\ UNCHANGED <<powerupVars, collectVars, multiVars>>

(* ----------------------------- Multiplayer ---------------------------- *)

\* the players object with no property
noPlayers == [id \in {} |-> 0]

\* constructor(scene, serverUrl)
InitMultiplayer ==
  /\ players = noPlayers
  /\ remoteSprites = <<>>
  /\ raised = ""
  /\ lastEvent = [handler |-> "constructor", id |-> ""]

\* onDisconnect(): the object is replaced, the sprites are left as they are
onDisconnect ==
  /\ players' = noPlayers
  /\ raised' = ""
  /\ lastEvent' = [handler |-> "onDisconnect", id |-> ""]
  /\ UNCHANGED remoteSprites
  /\ UNCHANGED <<powerupVars, collectVars, leaderVars>>

\* onPlayerJoined(player): a sprite is made at the player's place and stored
\* under the id, over whatever was stored there
onPlayerJoined(player) ==
  /\ Len(remoteSprites) < MaxJoins
  /\ remoteSprites' = Append(remoteSprites,
                             [x |-> player.x, y |-> player.y, key |-> "player",
                              destroyed |-> FALSE])
  /\ players' = [id \in DOMAIN players \cup {player.id} |->
                   IF id = player.id THEN Len(remoteSprites) + 1 ELSE players[id]]
  /\ raised' = ""
  /\ lastEvent' = [handler |-> "onPlayerJoined", id |-> player.id]
  /\ UNCHANGED <<powerupVars, collectVars, leaderVars>>

\* onPlayerLeft that destroys the sprite and keeps the property
onPlayerLeftNoDelete(playerId) ==
  /\ IF playerId \in DOMAIN players
     THEN /\ remoteSprites' = [remoteSprites EXCEPT ![players[playerId]].destroyed = TRUE]
          /\ players' = players
          /\ raised' = ""
     ELSE /\ raised' = "TypeError"
          /\ UNCHANGED <<players, remoteSprites>>
  /\ lastEvent' = [handler |-> "onPlayerLeft", id |-> playerId]
  /\ UNCHANGED <<powerupVars, collectVars, leaderVars>>

\* onPlayerLeft(playerId): players[playerId] is undefined for an id that is not
\* a property, and calling destroy on it throws before the delete
onPlayerLeft(playerId) ==
  /\ IF playerId \in DOMAIN players
     THEN /\ remoteSprites' = [remoteSprites EXCEPT ![players[playerId]].destroyed = TRUE]
          /\ players' = [id \in DOMAIN players \ {playerId} |-> players[id]]
          /\ raised' = ""
     ELSE /\ raised' = "TypeError"
          /\ UNCHANGED <<players, remoteSprites>>
  /\ lastEvent' = [handler |-> "onPlayerLeft", id |-> playerId]
  /\ UNCHANGED <<powerupVars, collectVars, leaderVars>>

\* onPlayerMoved without the test of players[player.id]: setPosition is called
\* on undefined for an id that is not a property
onPlayerMovedNoGuard(player) ==
  /\ IF player.id \in DOMAIN players
     THEN /\ remoteSprites' = [remoteSprites EXCEPT ![players[player.id]].x = player.x,
                                                    ![players[player.id]].y = player.y]
          /\ raised' = ""
     ELSE /\ raised' = "TypeError"
          /\ UNCHANGED remoteSprites
  /\ lastEvent' = [handler |-> "onPlayerMoved", id |-> player.id]
  /\ UNCHANGED players
  /\ UNCHANGED <<powerupVars, collectVars, leaderVars>>

\* onPlayerMoved(player): players[player.id] is a sprite for an id that is a
\* property of the map and undefined for any other, and setPosition(x, y) sets
\* the two coordinates of the sprite
onPlayerMoved(player) ==
  /\ IF player.id \in DOMAIN players
     THEN remoteSprites' = [remoteSprites EXCEPT ![players[player.id]].x = player.x,
                                                 ![players[player.id]].y = player.y]
     ELSE UNCHANGED remoteSprites
  /\ raised' = ""
  /\ lastEvent' = [handler |-> "onPlayerMoved", id |-> player.id]
  /\ UNCHANGED players
  /\ UNCHANGED <<powerupVars, collectVars, leaderVars>>

(* --------------------------- specifications --------------------------- *)

Init ==
  /\ InitPowerupManager
  /\ InitCollectiblesManager(0)
  /\ InitLeaderboards
  /\ InitMultiplayer

Next ==
  \/ \E type \in TypeArgs, pos \in SpawnPoints : createPowerup(type, pos)
  \/ \E w \in 1..Len(overlaps) : Overlap(w)
  \/ \E t \in timers : TimerFire(t)
  \/ Update
  \/ Tick

Spec == Init /\ [][Next]_vars

InitCollectibles ==
  /\ InitPowerupManager
  /\ \E total \in 0..MaxCollectibles : InitCollectiblesManager(total)
  /\ InitLeaderboards
  /\ InitMultiplayer

NextCollectibles ==
  \E c \in 1..Len(collectibles) : CollectOverlap(c)

SpecCollectibles == InitCollectibles /\ [][NextCollectibles]_vars

NextLeaderboards ==
  \E playerName \in NameArgs, score \in ScoreArgs : addScore(playerName, score)

SpecLeaderboards == Init /\ [][NextLeaderboards]_vars

NextMultiplayer ==
  \/ onDisconnect
  \/ \E player \in PlayerArgs : onPlayerJoined(player)
  \/ \E playerId \in PlayerIds : onPlayerLeft(playerId)
  \/ \E player \in PlayerArgs : onPlayerMoved(player)

SpecMultiplayer == Init /\ [][NextMultiplayer]_vars

\* The scene's update loop keeps running (the clock advances and update keeps
\* being called with it), or the clock advances and delivers the delayed calls
\* that are due; nothing is assumed about the other trigger.
TimerDelivery == \E t \in timers : TimerFire(t)

OneTriggerFair ==
  /\ WF_vars(Tick)
  /\ WF_vars(Update) \/ WF_vars(TimerDelivery)

SpecLive == Init /\ [][Next]_vars /\ OneTriggerFair

(* ------------------------- reading the state -------------------------- *)

\* the ActivePowerup objects built so far
Entries == 1..Len(heap)

\* e is in the active set
IsActive(arr, e) == \E i \in 1..Len(arr) : arr[i] = e

\* how often effect(subject, false) was called for entry e in log
Reversals(log, e) ==
  Cardinality({i \in 1..Len(log) : log[i].entry = e /\ ~log[i].activating})

\* how often effect(subject, true) was called for entry e in log
Applications(log, e) ==
  Cardinality({i \in 1..Len(log) : log[i].entry = e /\ log[i].activating})

\* the delayed call scheduled for entry e is still pending
TimerPending(e) == \E t \in timers : t.args[1] = e

\* the step is the delivery of the delayed call scheduled for entry e
TimerFiresFor(e) == \E t \in timers : t.args[1] = e /\ TimerFire(t)

(* ------------------------------- claims ------------------------------- *)

\* C1, state part: an entry's reversal has been invoked at most once, and
\* exactly once precisely when the entry has left the active set.
C1_AtMostOnce ==
  \A e \in Entries :
    /\ Reversals(effectLog, e) <= 1
    /\ (Reversals(effectLog, e) = 1) <=> ~IsActive(activePowerups, e)

\* C1, step part: after the timer callback of an entry, and after a sweep at or
\* after its expiration, the entry's reversal has been invoked exactly once,
\* whether or not the other path came first.
C1_EitherPath ==
  \A e \in Entries :
    /\ TimerFiresFor(e) => Reversals(effectLog', e) = 1
    /\ (Update /\ now >= heap[e].expirationTime) => Reversals(effectLog', e) = 1

\* C1: under any interleaving of the timer callback and of sweeps, the reversal
\* effect(subject, false) of an ActivePowerup is invoked at most once, and
\* exactly once as soon as either path has fired at or after its expiration.
C1_ReversalExactlyOnce == []C1_AtMostOnce /\ [][C1_EitherPath]_vars

\* C1 witness: both paths have fired for an entry (its timer was delivered and
\* a sweep ran at or after its expiration) and its reversal was invoked once.
C1_Witness ==
  \E e \in Entries :
    /\ ~TimerPending(e)
    /\ lastUpdate >= heap[e].expirationTime
    /\ ~IsActive(activePowerups, e)
    /\ Reversals(effectLog, e) = 1

\* C2, function part: deactivatePowerup applied to an entry that is not in the
\* active set changes nothing, and applied twice in a row to an entry it is
\* the same as applied once, with one reversal if the entry was active.
C2_TwiceIsOnce ==
  \A e \in Entries :
    LET once  == deactivatePowerup(manager, e, scenePlayer)
        twice == deactivatePowerup(once, e, scenePlayer)
        fired == IF IsActive(activePowerups, e) THEN 1 ELSE 0
    IN  /\ ~IsActive(activePowerups, e) => once = manager
        /\ twice = once
        /\ ~IsActive(twice.activePowerups, e)
        /\ Reversals(twice.effectLog, e) = Reversals(effectLog, e) + fired

\* C2, step part: a timer callback for an entry that a sweep has already removed
\* leaves the active set and the effect log as they are.
C2_LateCallNoOp ==
  \A e \in Entries :
    (TimerFiresFor(e) /\ ~IsActive(activePowerups, e))
      => UNCHANGED <<activePowerups, effectLog>>

\* C2: deactivatePowerup is idempotent: on an entry that is not in the active
\* set it leaves the active set unchanged and invokes no effect; called twice in
\* a row on the same entry it fires the reversal exactly once.
C2_DeactivateIdempotent == []C2_TwiceIsOnce /\ [][C2_LateCallNoOp]_vars

\* C2 witness: an entry was removed by a sweep while its timer callback, the
\* second deactivatePowerup call for it, is still to come, and another entry is
\* still active.
C2_Witness ==
  \E e \in Entries :
    /\ ~IsActive(activePowerups, e)
    /\ TimerPending(e)
    /\ Reversals(effectLog, e) = 1
    /\ activePowerups # <<>>

\* C3: one activatePowerup call for a spawned powerup of a valid type makes the
\* active set one entry longer and invokes effect(subject, true) exactly once,
\* for the new entry, and nothing else.
C3_Step ==
  \A w \in 1..Len(overlaps) :
    Overlap(w) =>
      /\ Len(activePowerups') = Len(activePowerups) + 1
      /\ Len(effectLog') = Len(effectLog) + 1
      /\ effectLog'[Len(effectLog')] =
           effectCall(powerupData[sprites[overlaps[w].object2].type].effect,
                      overlaps[w].object1, TRUE, activePowerups'[Len(activePowerups')])
      /\ SubSeq(effectLog', 1, Len(effectLog)) = effectLog
      /\ SubSeq(activePowerups', 1, Len(activePowerups)) = activePowerups
      /\ ~IsActive(activePowerups, activePowerups'[Len(activePowerups')])

C3_ActivateAddsOne == [][C3_Step]_vars

\* C3 witness: a second powerup has been activated while the first is active:
\* two entries in the active set, one application each.
C3_Witness ==
  /\ Len(activePowerups) = 2
  /\ \A i \in 1..2 : Applications(effectLog, activePowerups[i]) = 1
  /\ Len(effectLog) = 2

\* C4: a sweep with a time strictly before an entry's expirationTime leaves the
\* entry in the active set and does not invoke its effect; a sweep with a time
\* equal to or after it removes the entry and invokes effect(subject, false)
\* for it.
C4_Step ==
  Update =>
    \A e \in Entries :
      IsActive(activePowerups, e) =>
        IF now < heap[e].expirationTime
        THEN /\ IsActive(activePowerups', e)
             /\ Reversals(effectLog', e) = Reversals(effectLog, e)
             /\ Applications(effectLog', e) = Applications(effectLog, e)
        ELSE /\ ~IsActive(activePowerups', e)
             /\ Reversals(effectLog', e) = Reversals(effectLog, e) + 1
             /\ \E i \in (Len(effectLog) + 1)..Len(effectLog') :
                  effectLog'[i] = effectCall(heap[e].effect, scenePlayer, FALSE, e)

C4_SweepByExpiration == [][C4_Step]_vars

\* C4 witness: a sweep at exactly the expirationTime of one entry removed it
\* (its timer is still pending, so the sweep did) and kept an older entry that
\* expires later.
C4_Witness ==
  \E e1, e2 \in Entries :
    /\ e1 < e2
    /\ lastUpdate = heap[e2].expirationTime
    /\ lastUpdate < heap[e1].expirationTime
    /\ IsActive(activePowerups, e1)
    /\ Reversals(effectLog, e1) = 0
    /\ ~IsActive(activePowerups, e2)
    /\ TimerPending(e2)
    /\ Reversals(effectLog, e2) = 1

\* C5: createPowerup with a type that is not in the definition table creates no
\* representation, registers no overlap watch, leaves the active set unchanged;
\* it only emits a warning.
C5_Step ==
  \A type \in TypeArgs \ DOMAIN powerupData, pos \in SpawnPoints :
    createPowerup(type, pos) =>
      /\ UNCHANGED <<sprites, overlaps, heap, activePowerups, timers, effectLog>>
      /\ warnings' = Append(warnings, type)

C5_UnknownTypeSkipped == [][C5_Step]_vars

\* C5 witness: createPowerup was called with an unregistered type after a valid
\* one: one warning, and still only the one representation and watch.
C5_Witness ==
  /\ Len(warnings) = 1
  /\ Len(sprites) = 1
  /\ Len(overlaps) = 1
  /\ activePowerups = <<>>

\* C6: once a powerup has been activated it is eventually deactivated (out of
\* the active set, with its reversal fired), provided at least one of the two
\* triggers is fair: the timer callback is eventually delivered, or sweeps keep
\* being called with a clock that reaches the entry's expirationTime. Stated
\* for all entries at once: at any time, a later state has every entry built so
\* far out of the active set with its reversal fired once.
C6_EventuallyDeactivated ==
  []<>(\A e \in Entries :
         ~IsActive(activePowerups, e) /\ Reversals(effectLog, e) = 1)

\* C6 witness: an entry was deactivated by a sweep while its timer callback has
\* not been delivered.
C6_Witness ==
  \E e \in Entries :
    /\ TimerPending(e)
    /\ ~IsActive(activePowerups, e)
    /\ Reversals(effectLog, e) = 1
    /\ lastUpdate >= heap[e].expirationTime

\* the tick at which entry e was activated
ActivatedAt(e) == heap[e].expirationTime - heap[e].duration

\* e1 and e2 are powerups of different types activated at the same tick
Simultaneous(e1, e2) ==
  /\ e1 # e2
  /\ heap[e1].type # heap[e2].type
  /\ ActivatedAt(e1) = ActivatedAt(e2)

\* C7, state part: of two powerups of different types activated at the same
\* tick, each is reversed at most once and not before its own expiration.
C7_OwnExpiration ==
  \A e1, e2 \in Entries :
    Simultaneous(e1, e2) =>
      /\ Reversals(effectLog, e1) <= 1
      /\ (Reversals(effectLog, e1) = 1 \/ ~IsActive(activePowerups, e1))
           => now >= heap[e1].expirationTime

\* C7, step part: a step that deactivates one of them, while the other is
\* active and has not been deactivated in the same sweep for its own
\* expiration, leaves the other in the active set and does not call its effect.
C7_NoCrossCancel ==
  \A e1, e2 \in Entries :
    ( /\ Simultaneous(e1, e2)
      /\ IsActive(activePowerups, e1) /\ IsActive(activePowerups, e2)
      /\ ~IsActive(activePowerups', e1)
      /\ now < heap[e2].expirationTime )
    => /\ IsActive(activePowerups', e2)
       /\ Reversals(effectLog', e2) = 0
       /\ Reversals(effectLog', e1) = 1

\* C7: two powerups of different types activated at the same tick deactivate
\* independently, each at its own expiration; deactivating the one that expires
\* first neither removes the other nor fires the other's reversal.
C7_Independent == []C7_OwnExpiration /\ [][C7_NoCrossCancel]_vars

\* C7 witness: of two powerups activated at the same tick, the one that expires
\* first has been deactivated, the other is still active and unreversed before
\* its own expiration.
C7_Witness ==
  \E e1, e2 \in Entries :
    /\ Simultaneous(e1, e2)
    /\ e1 < e2
    /\ ~IsActive(activePowerups, e1)
    /\ Reversals(effectLog, e1) = 1
    /\ IsActive(activePowerups, e2)
    /\ Reversals(effectLog, e2) = 0
    /\ now < heap[e2].expirationTime

\* the representations that activatePowerup has consumed
Consumed == {s \in 1..Len(sprites) : ~sprites[s].enabled}

C9_Step ==
  \A c \in 1..Len(collectibles) :
    CollectOverlap(c) =>
      /\ ~collectibles'[c].enabled
      /\ collectedCount' = collectedCount + 1
      /\ totalCollectibles' = totalCollectibles
      /\ Len(collectibles') = Len(collectibles)
      /\ \A j \in 1..Len(collectibles) : j # c => collectibles'[j] = collectibles[j]
      /\ collectibles'[c].x = collectibles[c].x /\ collectibles'[c].y = collectibles[c].y

C9_CollectItem == [][C9_Step]_vars

\* C9 witness: two of at least three collectibles have been collected.
C9_Witness ==
  /\ totalCollectibles >= 3
  /\ collectedCount = 2
  /\ Cardinality({c \in 1..Len(collectibles) : ~collectibles[c].enabled}) = 2

\* the console.log calls that logged 'All collectibles collected!'
AllCollectedLogs ==
  {i \in 1..Len(consoleLog) : consoleLog[i].text = "All collectibles collected!"}

\* C10: 'All collectibles collected!' is logged on the collectItem call that
\* brings collectedCount to totalCollectibles (it is then the latest message,
\* logged once), and on no call before that count is reached.
C10_AllCollectedLogged ==
  AllCollectedLogs =
    IF collectedCount = totalCollectibles /\ collectedCount > 0
    THEN {Len(consoleLog)}
    ELSE {}

\* C10 witness: the last of at least two collectibles has been collected and
\* the message is the latest one logged.
C10_Witness ==
  /\ totalCollectibles >= 2
  /\ collectedCount = totalCollectibles
  /\ consoleLog[Len(consoleLog)].text = "All collectibles collected!"
  /\ Len(consoleLog) = totalCollectibles + 1

\* C11: constructing a CollectiblesManager creates exactly totalCollectibles
\* collectibles, the i-th at positions[i] (config.positions counted from 0),
\* all of them in the collectibles list, and registers exactly one overlap watch
\* between the player and that list, bound to collectItem. Nothing adds to the
\* list or to the watches afterwards.
C11_Constructed ==
  /\ Len(collectibles) = totalCollectibles
  /\ \A i \in 0..(totalCollectibles - 1) :
       /\ collectibles[i + 1].x = 100 * (i + 1)
       /\ collectibles[i + 1].y = 100 * (i + 1) + 100
       /\ collectibles[i + 1].x = positions[i + 1].x
       /\ collectibles[i + 1].spriteKey = "collectible"
       /\ collectibles[i + 1].immovable
  /\ Len(collectOverlaps) = 1
  /\ collectOverlaps[1] = [object1 |-> scenePlayer, object2 |-> "collectibles",
                           callback |-> "collectItem"]

\* C11 witness: a manager just constructed with four collectibles, none
\* collected yet.
C11_Witness ==
  /\ totalCollectibles = 4
  /\ Len(collectibles) = 4
  /\ collectedCount = 0
  /\ \A i \in 1..4 : collectibles[i].enabled

\* how many elements of the array carry this name and this score
Occurrences(arr, name, score) ==
  Cardinality({i \in 1..Len(arr) : arr[i].name = name /\ arr[i].score = score})

\* C12: after any sequence of addScore calls the scores list is ordered by
\* score, highest first, and holds exactly the entries that were added: one
\* per call, none lost and none duplicated.
C12_SortedAndComplete ==
  /\ \A i \in 1..Len(scores) : \A j \in i..Len(scores) :
       scores[i].score >= scores[j].score
  /\ Len(scores) = Len(scoreLog)
  /\ \A name \in NameArgs, score \in ScoreArgs :
       Occurrences(scores, name, score) = Occurrences(scoreLog, name, score)

\* C12 witness: three scores added lowest first, one of them twice, so the sort
\* had to move the later entries to the front.
C12_Witness ==
  /\ Len(scoreLog) = 3
  /\ scoreLog[1].score < scoreLog[2].score
  /\ scoreLog[3] = scoreLog[2]
  /\ scores[3].score = scoreLog[1].score

\* C13, joining: after onPlayerJoined(p) the map holds an entry for p.id, the
\* sprite just made at the player's place.
C13_Joined ==
  \A player \in PlayerArgs :
    onPlayerJoined(player) =>
      /\ player.id \in DOMAIN players'
      /\ players'[player.id] = Len(remoteSprites) + 1
      /\ remoteSprites'[players'[player.id]] =
           [x |-> player.x, y |-> player.y, key |-> "player", destroyed |-> FALSE]
      /\ \A id \in DOMAIN players \ {player.id} :
           id \in DOMAIN players' /\ players'[id] = players[id]

\* C13, leaving: after onPlayerLeft(id) the sprite the map held for id has been
\* destroyed and the map holds no entry for id; the other entries stay.
C13_Left ==
  \A playerId \in PlayerIds :
    onPlayerLeft(playerId) =>
      /\ playerId \notin DOMAIN players'
      /\ playerId \in DOMAIN players => remoteSprites'[players[playerId]].destroyed
      /\ \A id \in DOMAIN players \ {playerId} :
           id \in DOMAIN players' /\ players'[id] = players[id]

\* C13, disconnecting: after onDisconnect the map is empty.
C13_Disconnected == onDisconnect => DOMAIN players' = {}

\* C13: the players map tracks the remote players by id through
\* onPlayerJoined, onPlayerLeft and onDisconnect.
C13_PlayersTracked == [][C13_Joined /\ C13_Left /\ C13_Disconnected]_vars

\* C13 witness: two players joined, one of them left (its sprite is destroyed
\* and its entry gone), the other is still in the map.
C13_Witness ==
  /\ Len(remoteSprites) = 2
  /\ remoteSprites[1].destroyed
  /\ DOMAIN players = {"player2"}
  /\ players["player2"] = 2
  /\ raised = ""

\* the entries of the active set whose expirationTime has been reached at time
ExpiredAt(time) ==
  {e \in Entries : IsActive(activePowerups, e) /\ heap[e].expirationTime <= time}

\* C14: when update(time) returns, the active set holds no entry whose
\* expirationTime is less than or equal to time, however many had expired
\* before the call: each of them was deactivated (removed, effect reversed
\* once) in that single call.
C14_Step ==
  Update =>
    /\ \A i \in 1..Len(activePowerups') :
         heap[activePowerups'[i]].expirationTime > now
    /\ \A e \in ExpiredAt(now) :
         /\ ~IsActive(activePowerups', e)
         /\ Reversals(effectLog', e) = Reversals(effectLog, e) + 1
    /\ Len(activePowerups') = Len(activePowerups) - Cardinality(ExpiredAt(now))
    /\ Len(effectLog') = Len(effectLog) + Cardinality(ExpiredAt(now))

C14_SweepRemovesAllExpired == [][C14_Step]_vars

\* C14 witness: two entries with the same expirationTime, both out of the active
\* set while both of their timers are still pending: no update before that time
\* removes either, and the first update from that time on found both expired.
C14_Witness ==
  \E e1, e2 \in Entries :
    /\ e1 < e2
    /\ heap[e1].expirationTime = heap[e2].expirationTime
    /\ lastUpdate >= heap[e1].expirationTime
    /\ TimerPending(e1) /\ TimerPending(e2)
    /\ ~IsActive(activePowerups, e1) /\ ~IsActive(activePowerups, e2)
    /\ Reversals(effectLog, e1) = 1 /\ Reversals(effectLog, e2) = 1

\* the array without the element e, the others in their order
Without(arr, e) == SelectSeq(arr, LAMBDA x : x # e)

\* C15: deactivating one ActivePowerup of the active set removes exactly that
\* entry, found by identity: every other entry, one of the same type included,
\* stays in the set in the same relative order, and the only effect call made
\* is the reversal for the entry deactivated.
C15_RemovesOnlyThatEntry ==
  \A e \in Entries :
    IsActive(activePowerups, e) =>
      LET m == deactivatePowerup(manager, e, scenePlayer)
      IN  /\ m.activePowerups = Without(activePowerups, e)
          /\ Len(m.activePowerups) = Len(activePowerups) - 1
          /\ m.effectLog =
               Append(effectLog, effectCall(heap[e].effect, scenePlayer, FALSE, e))
          /\ \A other \in Entries \ {e} :
               /\ IsActive(m.activePowerups, other) = IsActive(activePowerups, other)
               /\ Reversals(m.effectLog, other) = Reversals(effectLog, other)
               /\ Applications(m.effectLog, other) = Applications(effectLog, other)

\* C15 witness: two entries of the same type were active, the later one has been
\* deactivated (by its timer) and the earlier one is still in the set with its
\* effect not reversed.
C15_Witness ==
  \E e1, e2 \in Entries :
    /\ e1 < e2
    /\ heap[e1].type = heap[e2].type
    /\ IsActive(activePowerups, e1)
    /\ Reversals(effectLog, e1) = 0
    /\ ~IsActive(activePowerups, e2)
    /\ Reversals(effectLog, e2) = 1

\* C16, creation: the ActivePowerup built by activatePowerup has type, duration
\* and effect as stored on the representation, which are those of the type's
\* definition, and expirationTime equal to the clock at activation plus the
\* definition's duration.
C16_Created ==
  \A w \in 1..Len(overlaps) :
    Overlap(w) =>
      LET powerup == sprites[overlaps[w].object2]
      IN  /\ Len(heap') = Len(heap) + 1
          /\ heap'[Len(heap')].type = powerup.type
          /\ heap'[Len(heap')].duration = powerup.duration
          /\ heap'[Len(heap')].duration = powerupData[powerup.type].duration
          /\ heap'[Len(heap')].effect = powerup.effect
          /\ heap'[Len(heap')].effect = powerupData[powerup.type].effect
          /\ heap'[Len(heap')].expirationTime =
               now + powerupData[powerup.type].duration

\* C16, afterwards: no operation changes an ActivePowerup once it is built.
C16_Kept == \A e \in Entries : Len(heap') >= e /\ heap'[e] = heap[e]

C16_ExpirationFixed == [][C16_Created /\ C16_Kept]_vars

\* C16 witness: an entry activated when the clock was past 0, so that its
\* expirationTime is more than its duration, which has since been swept at a
\* later time and had its timer delivered.
C16_Witness ==
  \E e \in Entries :
    /\ heap[e].expirationTime = 1 + powerupData[heap[e].type].duration
    /\ lastUpdate > heap[e].expirationTime
    /\ ~TimerPending(e)
    /\ ~IsActive(activePowerups, e)

\* C17: deactivated is terminal. An ActivePowerup that has been built and is
\* not in the active set has been removed from it, and no step (createPowerup,
\* activatePowerup, a timer callback, update) puts it back.
C17_Step ==
  \A e \in Entries :
    ~IsActive(activePowerups, e) => ~IsActive(activePowerups', e)

C17_DeactivatedIsTerminal == [][C17_Step]_vars

\* C17 witness: an entry was removed by a sweep, its timer callback has come
\* afterwards, and a powerup of the same type has been activated since: the
\* new activation is a new entry, the old one is still out of the set.
C17_Witness ==
  \E e1, e2 \in Entries :
    /\ e1 < e2
    /\ heap[e1].type = heap[e2].type
    /\ ~IsActive(activePowerups, e1)
    /\ ~TimerPending(e1)
    /\ lastUpdate >= heap[e1].expirationTime
    /\ ActivatedAt(e2) >= heap[e1].expirationTime
    /\ IsActive(activePowerups, e2)

\* the positions of the log that hold a call effect(subject, activating)
CallsWith(log, activating) == {i \in 1..Len(log) : log[i].activating = activating}

\* C18: in every reachable state the number of effect(subject, true) calls
\* minus the number of effect(subject, false) calls is the size of the active
\* set, and every reversal comes after an application for the same entry.
C18_EffectBalance ==
  /\ Cardinality(CallsWith(effectLog, TRUE)) - Cardinality(CallsWith(effectLog, FALSE))
       = Len(activePowerups)
  /\ \A i \in CallsWith(effectLog, FALSE) :
       \E j \in 1..(i - 1) :
         /\ effectLog[j].activating
         /\ effectLog[j].entry = effectLog[i].entry
         /\ effectLog[j].effect = effectLog[i].effect

\* C18 witness: two applications and one reversal so far, one entry active.
C18_Witness ==
  /\ Cardinality(CallsWith(effectLog, TRUE)) = 2
  /\ Cardinality(CallsWith(effectLog, FALSE)) = 1
  /\ Len(activePowerups) = 1
  /\ Cardinality(timers) = 1

\* the subject effect(subject, true) was called with for entry e
AppliedTo(e) ==
  {effectLog[j].subject : j \in {i \in CallsWith(effectLog, TRUE) : effectLog[i].entry = e}}

C21_Untracked ==
  \A player \in PlayerArgs :
    (onPlayerMoved(player) /\ player.id \notin DOMAIN players) =>
      /\ players' = players
      /\ remoteSprites' = remoteSprites
      /\ raised' = ""
      /\ UNCHANGED <<powerupVars, collectVars, leaderVars>>

\* C21, tracked: onPlayerMoved for an id in the map sets the position of that
\* player's sprite and nothing else: the map, the sprite's other fields and
\* every other sprite stay as they were.
C21_Tracked ==
  \A player \in PlayerArgs :
    (onPlayerMoved(player) /\ player.id \in DOMAIN players) =>
      /\ players' = players
      /\ Len(remoteSprites') = Len(remoteSprites)
      /\ remoteSprites'[players[player.id]].x = player.x
      /\ remoteSprites'[players[player.id]].y = player.y
      /\ remoteSprites'[players[player.id]].key = remoteSprites[players[player.id]].key
      /\ remoteSprites'[players[player.id]].destroyed =
           remoteSprites[players[player.id]].destroyed
      /\ \A other \in 1..Len(remoteSprites) :
           other # players[player.id] => remoteSprites'[other] = remoteSprites[other]
      /\ raised' = ""
      /\ UNCHANGED <<powerupVars, collectVars, leaderVars>>

C21_MovedOnlyIfTracked == [][C21_Untracked /\ C21_Tracked]_vars

\* C21 witness: two players joined, one left, and a playerMoved event then came
\* for the one that left: nothing was thrown, the map holds the other player
\* alone and that player's sprite is where it was made.
C21_Witness ==
  /\ lastEvent = [handler |-> "onPlayerMoved", id |-> "player1"]
  /\ raised = ""
  /\ DOMAIN players = {"player2"}
  /\ Len(remoteSprites) = 2
  /\ remoteSprites[1] = [x |-> 100, y |-> 200, key |-> "player", destroyed |-> TRUE]
  /\ remoteSprites[2] = [x |-> 300, y |-> 400, key |-> "player", destroyed |-> FALSE]

====
